---- MODULE Spec2Model ----
(***************************************************************************)
(* State-machine model of the blog application in src/main.py: the three   *)
(* tables (users, blog_posts, comments), the per-browser login session,    *)
(* the admin_only gate and the request handlers.                           *)
(*                                                                         *)
(* Every handler is one action, except register, whose e-mail lookup       *)
(* (line 116) and row insert (lines 119-126) are two steps in SpecRace, so *)
(* that two requests can interleave; Spec handles requests one at a time.  *)
(***************************************************************************)
EXTENDS Integers, FiniteSets, Sequences, TLC

\* ---------------------------------------------------------------- bounds
NumClients  == 2    \* browsers, each with its own session cookie
MaxUsers    == 2    \* rows in users
MaxPosts    == 2    \* rows in blog_posts at one time
MaxComments == 1    \* rows in comments

Clients   == 1..NumClients
Emails    == {"a@x.com", "b@x.com"}
Passwords == {"pw", "bad"}     \* what a login form can carry
RegisterPasswords == {"pw"}   \* what a register form can carry
Names     == {"A"}
Salts     == {"s1"}
Titles    == {"t1", "t2"}
Variants  == {"v1", "v2"}
Texts     == {"hi"}
Dates     == {"November 02, 2026"}
PostIds   == 1..MaxPosts            \* ids a URL can carry; an id is unknown while no row has it

\* The id the admin_only gate compares with (line 100).
AdminId == 1

\* No row / no user: SQL NULL, an anonymous session.
NULL == 0

VARIABLES
    users,      \* table users:      set of [id, email, password, name]
    posts,      \* table blog_posts: set of [id, author_id, title, subtitle, date, body, img_url]
    comments,   \* table comments:   set of [id, commenter_id, post_id, text]
    session,    \* session[c]: the user id in browser c's session cookie, or NULL
    pending,    \* pending[c]: a register request of c between lookup and insert
    resp        \* the response to the request handled last

vars == <<users, posts, comments, session, pending, resp>>

tables == <<users, posts, comments>>

\* ------------------------------------------------------------ credential store
\* generate_password_hash / check_password_hash (lines 118, 144): the stored
\* value carries the salt; verification re-derives the digest with that salt.
Digest(pw, salt) == <<"pbkdf2:sha256", salt, pw>>

generate_password_hash(pw, salt) == [salt |-> salt, digest |-> Digest(pw, salt)]

check_password_hash(pwhash, pw) == Digest(pw, pwhash.salt) = pwhash.digest

\* ------------------------------------------------------------------- requests
NoForm == [title |-> "", subtitle |-> "", img_url |-> "", body |-> ""]

NoPending == [active |-> FALSE, email |-> "", password |-> "", name |-> ""]

\* What a CreatePostForm can submit.
PostForms ==
    { [title |-> t, subtitle |-> "sub-" \o v, img_url |-> "img-" \o v, body |-> "body-" \o v] :
        t \in Titles, v \in Variants }

\* A response: the endpoint that handled the request, the HTTP status, the
\* endpoint a redirect points to, the flashed notice and the uncaught exception.
Response(endpoint, status, location, flashed, error) ==
    [endpoint |-> endpoint, status |-> status, location |-> location,
     flash |-> flashed, error |-> error]

render_template(endpoint) == Response(endpoint, 200, "", "", "")

redirect(endpoint, target) == Response(endpoint, 302, target, "", "")

flash_redirect(endpoint, msg, target) == Response(endpoint, 302, target, msg, "")

abort(endpoint, code) == Response(endpoint, code, "", "", "")

\* An exception no handler catches: the server answers 500 and the scoped
\* database session is discarded, so nothing is written.
raise(endpoint, exc) == Response(endpoint, 500, "", "", exc)

\* ------------------------------------------------------------------ store
MaxOf(S) == IF S = {} THEN 0 ELSE CHOOSE m \in S : \A x \in S : x <= m

\* INTEGER PRIMARY KEY in SQLite: one past the largest id in the table.
NextId(rows) == MaxOf({r.id : r \in rows}) + 1

\* db.session.get(User, id) / BlogPost.query.get(id): the set holds the row, or
\* is empty.
GetUser(id) == {u \in users : u.id = id}

GetPost(id) == {p \in posts : p.id = id}

\* load_user (lines 38-40) and current_user: the id in the session cookie when a
\* row has it, otherwise anonymous.
current_user(c) == IF GetUser(session[c]) # {} THEN session[c] ELSE NULL

is_authenticated(c) == current_user(c) # NULL

\* ------------------------------------------------------------ access policy
\* Faulty variant: the AttributeError is not caught apart, an anonymous request
\* gets 403 like any non-admin.
AdminOnlyAbortAnonymous(c) ==
    IF current_user(c) # AdminId THEN "abort" ELSE "call"

\* Faulty variant: the id is not compared, any logged-in user passes.
AdminOnlyAnyUser(c) ==
    IF current_user(c) = NULL THEN "redirect" ELSE "call"

\* admin_only (lines 92-104): reading current_user.id of an anonymous user
\* raises AttributeError -> redirect; an id other than 1 -> 403; else the body.
admin_only(c) ==
    IF current_user(c) = NULL THEN "redirect"
    ELSE IF current_user(c) # AdminId THEN "abort"
    ELSE "call"

Blocked(endpoint, c) ==
    IF admin_only(c) = "redirect" THEN redirect(endpoint, "get_all_posts") ELSE abort(endpoint, 403)

\* ------------------------------------------------------------------ register
\* Faulty variant: the lookup filters on the wrong column.
CheckUserByName(email) == {u \in users : u.name = email}

\* Line 116: the rows whose email is the submitted one.
check_user(email) == {u \in users : u.email = email}

\* Variant with unique=True on users.email: the insert of a held email is refused.
AddUserUniqueEmail(email, pwhash, name) ==
    IF \E u \in users : u.email = email
    THEN users
    ELSE users \cup {[id |-> NextId(users), email |-> email, password |-> pwhash, name |-> name]}

\* Lines 119-125: the users table after the insert. The email column (line 53)
\* is nullable=False and nothing more, so the insert is never refused.
AddUser(email, pwhash, name) ==
    users \cup {[id |-> NextId(users), email |-> email, password |-> pwhash, name |-> name]}

\* register, lines 113-131, handled without interruption.
Register(c, valid, email, pw, name, salt) ==
    /\ UNCHANGED <<posts, comments, pending>>
    /\ IF ~valid
       THEN /\ resp' = render_template("register")
            /\ UNCHANGED <<users, session>>
       ELSE IF check_user(email) = {}
       THEN /\ Cardinality(users) < MaxUsers
            /\ users' = AddUser(email, generate_password_hash(pw, salt), name)
            /\ session' = [session EXCEPT ![c] = MaxOf({u.id : u \in users' \ users})]
            /\ resp' = redirect("register", "get_all_posts")
       ELSE /\ resp' = flash_redirect("register", "We already have this address on file, please log in.", "login")
            /\ UNCHANGED <<users, session>>

\* register up to and including the lookup of line 116: an invalid form renders
\* the page, a found row redirects to login, and otherwise the request goes on
\* to the insert.
RegisterLookup(c, valid, email, pw, name) ==
    /\ ~pending[c].active
    /\ UNCHANGED <<users, posts, comments, session>>
    /\ IF ~valid
       THEN /\ resp' = render_template("register")
            /\ UNCHANGED pending
       ELSE IF check_user(email) = {}
       THEN /\ Cardinality(users) + Cardinality({d \in Clients : pending[d].active}) < MaxUsers
            /\ pending' = [pending EXCEPT ![c] =
                              [active |-> TRUE, email |-> email, password |-> pw, name |-> name]]
            /\ UNCHANGED resp
       ELSE /\ resp' = flash_redirect("register", "We already have this address on file, please log in.", "login")
            /\ UNCHANGED pending

\* register from line 118 on: hash, insert, commit, login_user, redirect.
RegisterInsert(c, salt) ==
    /\ pending[c].active
    /\ users' = AddUser(pending[c].email, generate_password_hash(pending[c].password, salt),
                        pending[c].name)
    /\ session' = [session EXCEPT ![c] = MaxOf({u.id : u \in users' \ users})]
    /\ pending' = [pending EXCEPT ![c] = NoPending]
    /\ resp' = redirect("register", "get_all_posts")
    /\ UNCHANGED <<posts, comments>>

\* --------------------------------------------------------------------- login
\* login, lines 135-150. scalar_one() raises NoResultFound for no row (caught,
\* line 140) and MultipleResultsFound for more than one (not caught).
Login(c, valid, email, pw) ==
    /\ UNCHANGED <<users, posts, comments, pending>>
    /\ LET found == check_user(email) IN
       IF ~valid
       THEN /\ resp' = render_template("login")
            /\ UNCHANGED session
       ELSE IF found = {}
       THEN /\ resp' = flash_redirect("login", "Unknown user", "login")
            /\ UNCHANGED session
       ELSE IF Cardinality(found) > 1
       THEN /\ resp' = raise("login", "MultipleResultsFound")
            /\ UNCHANGED session
       ELSE LET user == CHOOSE u \in found : TRUE IN
            IF check_password_hash(user.password, pw)
            THEN /\ session' = [session EXCEPT ![c] = user.id]
                 /\ resp' = redirect("login", "get_all_posts")
            ELSE /\ resp' = flash_redirect("login", "Invalid password", "login")
                 /\ UNCHANGED session

\* logout, lines 153-157. login_required answers an anonymous request with 401
\* (no login_view is configured).
Logout(c) ==
    /\ UNCHANGED <<users, posts, comments, pending>>
    /\ IF is_authenticated(c)
       THEN /\ session' = [session EXCEPT ![c] = NULL]
            /\ resp' = redirect("logout", "get_all_posts")
       ELSE /\ resp' = abort("logout", 401)
            /\ UNCHANGED session

\* ------------------------------------------------------------------ comments
\* show_post, lines 161-177. BlogPost.query.get returns None for an unknown id;
\* Comment(post=None) stores post_id NULL (the column is nullable, line 84).
PostIdOf(post_id) == IF GetPost(post_id) # {} THEN post_id ELSE NULL

ShowPost(c, valid, post_id, text) ==
    /\ UNCHANGED <<users, posts, session, pending>>
    /\ IF ~valid
       THEN /\ resp' = render_template("show_post")
            /\ UNCHANGED comments
       ELSE IF ~is_authenticated(c)
       THEN /\ resp' = flash_redirect("show_post", "You need to log in or register in order to leave comments.", "login")
            /\ UNCHANGED comments
       ELSE /\ Cardinality(comments) < MaxComments
            /\ comments' = comments \cup
                   {[id |-> NextId(comments), commenter_id |-> current_user(c),
                     post_id |-> PostIdOf(post_id), text |-> text]}
            /\ resp' = redirect("show_post", "show_post")

\* --------------------------------------------------------------------- posts
\* Variant without unique=True on blog_posts.title.
NoTitleConstraint(rows) == TRUE

\* title is unique=True (line 73): a commit that would leave two rows with one
\* title raises IntegrityError.
UniqueTitle(rows) == \A p, q \in rows : p.title = q.title => p = q

\* add_new_post, lines 190-206.
AddNewPost(c, valid, form, today) ==
    /\ UNCHANGED <<users, comments, session, pending>>
    /\ IF admin_only(c) # "call"
       THEN /\ resp' = Blocked("add_new_post", c)
            /\ UNCHANGED posts
       ELSE IF ~valid
       THEN /\ resp' = render_template("add_new_post")
            /\ UNCHANGED posts
       ELSE LET new_post == [id |-> NextId(posts), author_id |-> current_user(c),
                             title |-> form.title, subtitle |-> form.subtitle,
                             date |-> today, body |-> form.body, img_url |-> form.img_url]
            IN  IF UniqueTitle(posts \cup {new_post})
                THEN /\ Cardinality(posts) < MaxPosts
                     /\ posts' = posts \cup {new_post}
                     /\ resp' = redirect("add_new_post", "get_all_posts")
                ELSE /\ resp' = raise("add_new_post", "IntegrityError")
                     /\ UNCHANGED posts

\* Faulty variant: the edit also overwrites the date.
EditedPostStampsDate(post, form) ==
    [post EXCEPT !.title = form.title, !.subtitle = form.subtitle,
                 !.img_url = form.img_url, !.body = form.body, !.date = ""]

\* Lines 220-223: the row after the four assignments.
EditedPost(post, form) ==
    [post EXCEPT !.title = form.title, !.subtitle = form.subtitle,
                 !.img_url = form.img_url, !.body = form.body]

\* edit_post, lines 209-227. An unknown id makes post None, and post.title
\* (line 214) raises AttributeError before the form is looked at.
EditPost(c, valid, post_id, form) ==
    /\ UNCHANGED <<users, comments, session, pending>>
    /\ IF admin_only(c) # "call"
       THEN /\ resp' = Blocked("edit_post", c)
            /\ UNCHANGED posts
       ELSE IF GetPost(post_id) = {}
       THEN /\ resp' = raise("edit_post", "AttributeError")
            /\ UNCHANGED posts
       ELSE IF ~valid
       THEN /\ resp' = render_template("edit_post")
            /\ UNCHANGED posts
       ELSE LET post  == CHOOSE p \in GetPost(post_id) : TRUE
                after == (posts \ {post}) \cup {EditedPost(post, form)}
            IN  IF UniqueTitle(after)
                THEN /\ posts' = after
                     /\ resp' = redirect("edit_post", "show_post")
                ELSE /\ resp' = raise("edit_post", "IntegrityError")
                     /\ UNCHANGED posts

\* Variant with cascade="all, delete" on BlogPost.comments.
CommentsCascadeDelete(post_id) == {k \in comments : k.post_id # post_id}

\* The comments table after the row of post_id is deleted: BlogPost.comments
\* (line 72) has no delete cascade, so the unit of work detaches the post's
\* comments by setting their post_id to NULL and deletes none of them.
CommentsAfterDelete(post_id) ==
    {IF k.post_id = post_id THEN [k EXCEPT !.post_id = NULL] ELSE k : k \in comments}

\* delete_post, lines 230-236. db.session.delete(None) raises for an unknown id.
DeletePost(c, post_id) ==
    /\ UNCHANGED <<users, session, pending>>
    /\ IF admin_only(c) # "call"
       THEN /\ resp' = Blocked("delete_post", c)
            /\ UNCHANGED <<posts, comments>>
       ELSE IF GetPost(post_id) = {}
       THEN /\ resp' = raise("delete_post", "UnmappedInstanceError")
            /\ UNCHANGED <<posts, comments>>
       ELSE /\ posts' = posts \ GetPost(post_id)
            /\ comments' = CommentsAfterDelete(post_id)
            /\ resp' = redirect("delete_post", "get_all_posts")

\* ------------------------------------------------------------- specification
Init ==
    /\ users = {}
    /\ posts = {}
    /\ comments = {}
    /\ session = [c \in Clients |-> NULL]
    /\ pending = [c \in Clients |-> NoPending]
    /\ resp = Response("", 0, "", "", "")

\* A request whose form does not validate (a GET, or a POST with bad fields)
\* carries no data the handler reads.
\*
\* Requests handled one at a time: every handler, register included, runs from
\* its first line to its response without another request in between.
Next ==
    \/ \E c \in Clients, s \in Salts : Register(c, FALSE, "", "", "", s)
    \/ \E c \in Clients, e \in Emails, pw \in RegisterPasswords, n \in Names, s \in Salts :
          Register(c, TRUE, e, pw, n, s)
    \/ \E c \in Clients : Login(c, FALSE, "", "")
    \/ \E c \in Clients, e \in Emails, pw \in Passwords : Login(c, TRUE, e, pw)
    \/ \E c \in Clients : Logout(c)
    \/ \E c \in Clients, p \in PostIds : ShowPost(c, FALSE, p, "")
    \/ \E c \in Clients, p \in PostIds, t \in Texts : ShowPost(c, TRUE, p, t)
    \/ \E c \in Clients, d \in Dates : AddNewPost(c, FALSE, NoForm, d)
    \/ \E c \in Clients, f \in PostForms, d \in Dates : AddNewPost(c, TRUE, f, d)
    \/ \E c \in Clients, p \in PostIds : EditPost(c, FALSE, p, NoForm)
    \/ \E c \in Clients, p \in PostIds, f \in PostForms : EditPost(c, TRUE, p, f)
    \/ \E c \in Clients, p \in PostIds : DeletePost(c, p)

Spec == Init /\ [][Next]_vars

\* Concurrent requests to the account endpoints: a register request is two
\* steps, and the requests of other browsers run between them.
NextRace ==
    \/ \E c \in Clients : RegisterLookup(c, FALSE, "", "", "")
    \/ \E c \in Clients, e \in Emails, pw \in RegisterPasswords, n \in Names :
          RegisterLookup(c, TRUE, e, pw, n)
    \/ \E c \in Clients, s \in Salts : RegisterInsert(c, s)
    \/ \E c \in Clients : Login(c, FALSE, "", "")
    \/ \E c \in Clients, e \in Emails, pw \in Passwords : Login(c, TRUE, e, pw)
    \/ \E c \in Clients : Logout(c)

SpecRace == Init /\ [][NextRace]_vars

\* ===================================================================== claims
HasEmail(e) == \E u \in users : u.email = e

PostExists(p) == \E x \in posts : x.id = p

\* A step in which client c's request is handled by one of the three gated
\* endpoints, with any input Next can draw.
GatedStep(c) ==
    \/ /\ resp'.endpoint = "add_new_post"
       /\ \E d \in Dates : \/ AddNewPost(c, FALSE, NoForm, d)
                           \/ \E f \in PostForms : AddNewPost(c, TRUE, f, d)
    \/ /\ resp'.endpoint = "edit_post"
       /\ \E p \in PostIds : \/ EditPost(c, FALSE, p, NoForm)
                             \/ \E f \in PostForms : EditPost(c, TRUE, p, f)
    \/ /\ resp'.endpoint = "delete_post"
       /\ \E p \in PostIds : DeletePost(c, p)

\* The handler body ran: it wrote to a table, rendered its form, raised, or
\* sent the redirect only edit_post's body sends.
BodyRan ==
    \/ tables' # tables
    \/ resp'.status \in {200, 500}
    \/ resp'.location = "show_post"

\* What C1 says of a gated step of client c.
GateOutcome(c) ==
    /\ BodyRan => session[c] = AdminId /\ (\E u \in users : u.id = AdminId)
    /\ session[c] = NULL =>
          /\ resp'.status = 302 /\ resp'.location = "get_all_posts"
          /\ UNCHANGED <<users, posts, comments, session>>
    /\ session[c] \notin {NULL, AdminId} =>
          /\ resp'.status = 403
          /\ UNCHANGED <<users, posts, comments, session>>

\* C1: a request to add_new_post, edit_post or delete_post runs the handler
\* body only when the session identifies user 1; an anonymous request is
\* redirected to the post listing, a request of any other user is answered 403,
\* and in both blocked cases the tables and the sessions are unchanged.
\* (Written "outcome, or not a gated step of c": GatedStep(c) => GateOutcome(c).)
C1_AdminGate ==
    [][\A c \in Clients : GateOutcome(c) \/ ~GatedStep(c)]_vars

\* C1 witness: a logged-in user who is not the admin was refused an edit of an
\* existing post.
C1_Witness ==
    /\ resp.endpoint = "edit_post" /\ resp.status = 403
    /\ posts # {}
    /\ \E c \in Clients : session[c] \notin {NULL, AdminId}

\* C2: with requests handled one at a time (Spec), register with a valid form and a
\* new email adds exactly one User row with that email and sets the session to
\* the new user; with an email some row already has, it adds no row, leaves the
\* session as it was and redirects to login.
C2_Register ==
    [][\A c \in Clients, e \in Emails, pw \in RegisterPasswords, n \in Names, s \in Salts :
          (resp'.endpoint = "register" /\ Register(c, TRUE, e, pw, n, s)) =>
             IF ~HasEmail(e)
             THEN \E u \in users' \ users :
                     /\ users' = users \cup {u}
                     /\ u.email = e
                     /\ \A v \in users : v.id # u.id
                     /\ session' = [session EXCEPT ![c] = u.id]
             ELSE /\ users' = users
                  /\ session' = session
                  /\ resp'.status = 302 /\ resp'.location = "login"]_vars

\* C2 witness: a register request for a registered email was turned away.
C2_Witness ==
    /\ resp.endpoint = "register" /\ resp.location = "login"
    /\ users # {}
    /\ \E c \in Clients : session[c] # NULL

\* C3: a login with an existing email and its correct password leaves the
\* session identifying exactly that user; with an existing email and a wrong
\* password it leaves no session at all and shows the invalid-password notice.
C3_Login ==
    [][\A c \in Clients, e \in Emails, pw \in Passwords :
          (resp'.endpoint = "login" /\ HasEmail(e) /\ Login(c, TRUE, e, pw)) =>
             IF \E u \in users : u.email = e /\ u.password.digest = Digest(pw, u.password.salt)
             THEN \E u \in users :
                     /\ u.email = e /\ u.password.digest = Digest(pw, u.password.salt)
                     /\ session'[c] = u.id
             ELSE /\ session'[c] = NULL
                  /\ resp'.flash = "Invalid password"]_vars

\* No two rows of blog_posts have one title.
TitlesDistinct == \A p, q \in posts : p.title = q.title => p.id = q.id

\* C4: no two Post rows ever have the same title; add_new_post with a title
\* some post has, and edit_post that gives a post the title of another post, end
\* in a uniqueness error and leave the posts table unchanged.
C4_UniqueTitle ==
    /\ []TitlesDistinct
    /\ [][\A c \in Clients, f \in PostForms :
             /\ \A d \in Dates :
                   (/\ resp'.endpoint = "add_new_post"
                    /\ session[c] = AdminId
                    /\ \E x \in posts : x.title = f.title
                    /\ AddNewPost(c, TRUE, f, d))
                   => (resp'.error = "IntegrityError" /\ posts' = posts)
             /\ \A p \in PostIds :
                   (/\ resp'.endpoint = "edit_post"
                    /\ session[c] = AdminId
                    /\ PostExists(p)
                    /\ \E x \in posts : x.id # p /\ x.title = f.title
                    /\ EditPost(c, TRUE, p, f))
                   => (resp'.error = "IntegrityError" /\ posts' = posts)]_vars

\* C4 witness: an edit that would have given one post the other's title failed.
C4_Witness ==
    /\ resp.endpoint = "edit_post" /\ resp.error = "IntegrityError"
    /\ Cardinality(posts) = 2

\* C5: show_post with a valid comment form, for every post id: anonymous, no
\* Comment row is created and the response redirects to login; authenticated,
\* exactly one Comment row is created, whose commenter is the session's user and
\* whose post is the Post row with the requested id.
C5_Comment ==
    [][\A c \in Clients, p \in PostIds, t \in Texts :
          (resp'.endpoint = "show_post" /\ ShowPost(c, TRUE, p, t)) =>
             IF session[c] = NULL
             THEN /\ comments' = comments
                  /\ resp'.status = 302 /\ resp'.location = "login"
             ELSE \E k \in comments' \ comments :
                     /\ comments' = comments \cup {k}
                     /\ k.commenter_id = session[c]
                     /\ k.post_id = p
                     /\ PostExists(p)]_vars

\* C6: a successful edit_post on post p changes only p's title, subtitle,
\* img_url and body, to the submitted values; p's id, author and date, the
\* comments, every other Post row, every User row and the sessions are unchanged.
C6_EditFrame ==
    [][\A c \in Clients, p \in PostIds, f \in PostForms :
          (resp' = redirect("edit_post", "show_post") /\ EditPost(c, TRUE, p, f)) =>
             \E old \in posts :
                /\ old.id = p
                /\ posts' = (posts \ {old}) \cup
                      {[id |-> old.id, author_id |-> old.author_id, date |-> old.date,
                        title |-> f.title, subtitle |-> f.subtitle,
                        img_url |-> f.img_url, body |-> f.body]}
                /\ UNCHANGED <<users, comments, session>>]_vars

\* C6 witness: an edit succeeded while a second post and a comment on an
\* existing post were in the tables.
C6_Witness ==
    /\ resp.endpoint = "edit_post" /\ resp.status = 302 /\ resp.location = "show_post"
    /\ Cardinality(posts) = 2
    /\ \E k \in comments : PostExists(k.post_id)

\* C7: every Comment row references an existing Post row and an existing User
\* row, and every Post row references an existing User row as its author.
C7_ReferentialIntegrity ==
    /\ \A k \in comments :
          /\ \E x \in posts : x.id = k.post_id
          /\ \E u \in users : u.id = k.commenter_id
    /\ \A x \in posts : \E u \in users : u.id = x.author_id

\* C8: with interleaved requests (SpecRace), the insert step of a register request that passed the lookup always
\* adds a User row with the request's email, also when another request has
\* inserted that email in between: nothing in the users table refuses it. (The
\* witness is the state with two rows of one email.)
C8_RegisterRace ==
    [][\A c \in Clients, s \in Salts :
          (pending[c].active /\ ~pending'[c].active /\ RegisterInsert(c, s)) =>
             \E u \in users' \ users :
                /\ users' = users \cup {u}
                /\ u.email = pending[c].email]_vars

\* C8 witness: two User rows hold the same email.
C8_Witness == \E u, v \in users : u.id # v.id /\ u.email = v.email

\* C9: delete_post by the admin on an existing post p removes exactly the row
\* p, with or without comments; no Comment row is removed, and every other Post
\* row, every User row and the sessions are unchanged.
C9_DeleteFrame ==
    [][\A c \in Clients, p \in PostIds :
          (/\ resp'.endpoint = "delete_post"
           /\ session[c] = AdminId
           /\ PostExists(p)
           /\ DeletePost(c, p)) =>
             /\ posts' = {x \in posts : x.id # p}
             /\ Cardinality(posts') = Cardinality(posts) - 1
             /\ {k.id : k \in comments'} = {k.id : k \in comments}
             /\ Cardinality(comments') = Cardinality(comments)
             /\ UNCHANGED <<users, session>>]_vars

\* C9 witness: a delete succeeded and a comment without a post is in the table.
C9_Witness ==
    /\ resp.endpoint = "delete_post" /\ resp.status = 302
    /\ \E k \in comments : k.post_id = NULL

\* C10: the author of every Post row is the user with id 1, and no step
\* changes the author of a post that stays in the table.
C10_AuthorIsAdmin ==
    /\ [](\A x \in posts : x.author_id = AdminId)
    /\ [][\A x \in posts, y \in posts' : x.id = y.id => y.author_id = x.author_id]_vars

\* C10 witness: a post exists while a user other than the admin is logged in.
C10_Witness ==
    /\ posts # {}
    /\ \E c \in Clients : session[c] \notin {NULL, AdminId}
    /\ resp.endpoint = "add_new_post" /\ resp.status = 403

====
